---- MODULE Spec2Model ----
(***************************************************************************)
(* A model of monitor.py, the RELIEF Ticket resale monitor: the listing    *)
(* extractor get_event_urls, the availability detector                     *)
(* check_event_tickets, one poll cycle run_check (scan, dedup, deliver,    *)
(* prune, save) and the two run modes of main.                             *)
(*                                                                         *)
(* Time is the wall clock in whole seconds.  datetime.now() is the naive   *)
(* local time, taken here at a fixed offset from UTC (no DST change).      *)
(* Strings that the program builds by concatenation are TLA+ strings       *)
(* built with \o.  The Japanese literal for "unknown" is written UNKNOWN.  *)
(***************************************************************************)
EXTENDS Integers, Sequences, FiniteSets, TLC

VARIABLES
    once,          \* "--once" in sys.argv of the running process
    pc,            \* position of the process: idle, artists, events, notify,
                   \* prune, save, sleep, exited
    exit,          \* how the process ended: running, ok, crash, interrupted
    clock,         \* wall clock, epoch seconds
    file,          \* contents of STATE_FILE: Absent, Corrupt or a state dict
    state,         \* run_check's local `state`
    new_findings,  \* run_check's local `new_findings`
    ai,            \* index of the artist being polled in ARTISTS
    events,        \* run_check's local `events`
    ei,            \* index of the event being polled in events
    tickets,       \* result of the latest check_event_tickets
    di,            \* index of the finding being delivered
    cycles,        \* number of poll cycles started so far
    cycle,         \* history: none, running, completed, aborted, interrupted
    loaded,        \* history: the notified mapping load_state returned
    seen,          \* history: keys observed by this cycle's successful detections
    failed,        \* history: paths of the events whose detection raised
    listFailed,    \* history: artists whose index page failed to render
    sent,          \* history: this cycle's send_line calls, <<key, outcome>>
    pruned,        \* history: the mapping and `now` the pruning pass worked on
    cycleEnd,      \* history: clock when the latest cycle ended
    page,          \* the event page the detector was last given
    committed,     \* history: the file as the latest completed cycle left it
    listed,        \* history: paths of the events get_event_urls returned
    polled,        \* history: paths of the events check_event_tickets was called on
    prev,          \* history: how the previous cycle of this process ended
    started,       \* history: clock when the cycle in progress started
    asked,         \* history: artists get_event_urls was called for
    dropped,       \* history: keys of the Findings the latest aborted cycle
                   \* had made and not handed to send_line, until a later
                   \* cycle has ended otherwise
    told           \* history: for each key a completed cycle of this
                   \* process made a Finding of, the method and ticket
                   \* labels of the latest such Finding

vars == <<once, pc, exit, clock, file, state, new_findings, ai, events, ei,
          tickets, di, cycles, cycle, loaded, seen, failed, listFailed, sent,
          pruned, cycleEnd, page, committed, listed, polled, prev, started,
          asked, dropped, told>>

-----------------------------------------------------------------------------
(* Configuration *)

BASE_URL == "https://relief-ticket.jp"

\* The artists the model knows; "Nobody" has no entry.
ARTIST_IDS == [a \in {"Travis Japan", "SixTONES"} |->
                 IF a = "Travis Japan" THEN "38" ELSE "40"]

\* ARTISTS as configured for the model: two known artists around an unknown one.
ARTISTS == <<"Travis Japan", "Nobody", "SixTONES">>

CHECK_INTERVAL == 60

\* 30 * 86400 seconds
RETENTION == 2592000

UNKNOWN == "unknown"

\* A missing DOM element / a missing dict entry.
None == "None"

-----------------------------------------------------------------------------
(* Helpers on sequences *)

RECURSIVE Flatten(_)
Flatten(ss) == IF ss = <<>> THEN <<>> ELSE Head(ss) \o Flatten(Tail(ss))

RECURSIVE SelectSeqIdx(_, _, _)
\* The elements s[i] of s, in order, for which keep[i] holds.
SelectSeqIdx(s, keep, i) ==
    IF i > Len(s) THEN <<>>
    ELSE (IF keep[i] THEN <<s[i]>> ELSE <<>>) \o SelectSeqIdx(s, keep, i + 1)

-----------------------------------------------------------------------------
(* Time: datetime.now(), isoformat, fromisoformat, timestamp *)

\* Offset of the local zone from UTC, seconds (Asia/Tokyo).
UtcOffset == 32400

\* datetime.now(): naive local time for epoch second t.
Now(t) == t + UtcOffset

\* datetime.timestamp() of a naive local time.
Timestamp(dt) == dt - UtcOffset

\* datetime.isoformat(): the text stored in the state file.
IsoFormat(dt) == <<"iso", dt>>

\* datetime.fromisoformat()
FromIsoFormat(s) == s[2]

-----------------------------------------------------------------------------
(* Listing extractor: get_event_urls *)

\* The href of a link.  A link is [aid, eid, tail, text]: eid = "" for a link
\* that carries no numeric event id (the artist index itself).
HrefOf(l) ==
    "/events/artist/" \o l.aid \o
        (IF l.eid = "" THEN "" ELSE "/" \o l.eid) \o l.tail

\* re.match(rf"/events/artist/{artist_id}/\d+", href): a prefix match.
HrefMatches(l, artist_id) == l.aid = artist_id /\ l.eid # ""

\* The loop over the links of the index page: first occurrence of each
\* matching href, in document order.
ExtractEvents(links, artist_id) ==
    LET keep == [i \in 1..Len(links) |->
                   /\ HrefMatches(links[i], artist_id)
                   /\ \A j \in 1..(i - 1) : HrefOf(links[j]) # HrefOf(links[i])]
        ev(l) == [name |-> l.text, url |-> BASE_URL \o HrefOf(l), path |-> HrefOf(l)]
        kept == SelectSeqIdx(links, keep, 1)
    IN  [i \in 1..Len(kept) |-> ev(kept[i])]

\* True when the artist name has an entry in ARTIST_IDS.
Resolvable(artist_name) == artist_name \in DOMAIN ARTIST_IDS

\* get_event_urls on the rendered index page with these links.
get_event_urls(links, artist_name) ==
    IF ~Resolvable(artist_name) THEN <<>>
    ELSE ExtractEvents(links, ARTIST_IDS[artist_name])

-----------------------------------------------------------------------------
(* Availability detector: check_event_tickets *)

\* A page is [blocks, orphans, buttons].
\*   blocks  : the div.perform-list blocks in document order, each
\*             [muted, date, venue, selects]; date / venue is the text of
\*             .lead / the first p, or None when the element is missing;
\*             selects is the sequence of .ticket-select controls inside the
\*             block, each the sequence of its option[data-ticket-no] labels.
\*   orphans : number of .ticket-select controls outside every block.
\*   buttons : the elements "button, input[type=submit], a.btn", each
\*             [tag, text].

PURCHASE == "purchase"

TextOrUnknown(el) == IF el = None THEN UNKNOWN ELSE el

\* get_text() of a clickable element: an input element has no text content.
GetText(btn) == IF btn.tag = "input" THEN "" ELSE btn.text

SelectStrategy(pg) ==
    Flatten([i \in 1..Len(pg.blocks) |->
        [j \in 1..Len(pg.blocks[i].selects) |->
            [date    |-> TextOrUnknown(pg.blocks[i].date),
             venue   |-> TextOrUnknown(pg.blocks[i].venue),
             tickets |-> pg.blocks[i].selects[j],
             method  |-> "select"]]])

\* A faulty variant of ActiveStrategy: the text-muted marker is not looked at.
ActiveStrategyAnyBlock(pg) ==
    [i \in 1..Len(pg.blocks) |->
        [date    |-> TextOrUnknown(pg.blocks[i].date),
         venue   |-> TextOrUnknown(pg.blocks[i].venue),
         tickets |-> <<>>,
         method  |-> "active"]]

ActiveStrategy(pg) ==
    LET keep == [i \in 1..Len(pg.blocks) |-> ~pg.blocks[i].muted]
        act  == SelectSeqIdx(pg.blocks, keep, 1)
    IN  [i \in 1..Len(act) |->
            [date    |-> TextOrUnknown(act[i].date),
             venue   |-> TextOrUnknown(act[i].venue),
             tickets |-> <<>>,
             method  |-> "active"]]

ButtonStrategy(pg) ==
    LET keep == [i \in 1..Len(pg.buttons) |-> GetText(pg.buttons[i]) = PURCHASE]
        hit  == SelectSeqIdx(pg.buttons, keep, 1)
    IN  [i \in 1..Len(hit) |->
            [date    |-> UNKNOWN,
             venue   |-> UNKNOWN,
             tickets |-> <<>>,
             method  |-> "button"]]

\* A faulty variant of check_event_tickets: every strategy runs, whatever
\* the earlier ones found.
check_event_tickets_all(pg) ==
    SelectStrategy(pg) \o ActiveStrategy(pg) \o ButtonStrategy(pg)

check_event_tickets(pg) ==
    LET a1 == SelectStrategy(pg)
        a2 == IF a1 = <<>> THEN a1 \o ActiveStrategy(pg) ELSE a1
        a3 == IF a2 = <<>> THEN a2 \o ButtonStrategy(pg) ELSE a2
    IN  a3

-----------------------------------------------------------------------------
(* State store: load_state, the dedup loop of run_check, the pruning pass *)

EmptyMap == [k \in {} |-> <<"iso", 0>>]

\* No "last_check" entry in the dict.
NoTime == <<"none", 0>>

\* STATE_FILE: missing, unreadable as JSON, or a dict written by save_state.
Absent == [kind |-> "absent"]
Corrupt == [kind |-> "corrupt"]
FileOf(st) == [kind |-> "dict", notified |-> st.notified, last_check |-> st.last_check]

\* load_state on a file it can read: the dict it returns.
load_state(f) ==
    IF f.kind = "absent" THEN [notified |-> EmptyMap, last_check |-> NoTime]
    ELSE [notified |-> f.notified, last_check |-> f.last_check]

\* key = f"{event['path']}|{t['date']}|{t['venue']}"
Key(path, date, venue) == path \o "|" \o date \o "|" \o venue

\* A faulty variant of KeyOf: the detecting strategy is part of the key.
KeyOfWithMethod(event, t) == Key(event.path, t.date, t.venue) \o "|" \o t.method

KeyOf(event, t) == Key(event.path, t.date, t.venue)

\* The key of a Finding (path is kept beside event_url, which is BASE_URL
\* followed by the path, so that the key can be read back).
FindingKey(f) == Key(f.path, f.date, f.venue)

Finding(artist, event, t) ==
    [artist     |-> artist,
     event_name |-> event.name,
     event_url  |-> event.url,
     path       |-> event.path,
     date       |-> t.date,
     venue      |-> t.venue,
     tickets    |-> t.tickets,
     method     |-> t.method]

\* state["notified"][key] = value
SetItem(notified, key, value) ==
    [k \in DOMAIN notified \cup {key} |-> IF k = key THEN value ELSE notified[k]]

\* A faulty variant of DedupOne: the membership test is lost, every listing is new.
DedupOneNoTest(acc, artist, event, t, now) ==
    [notified |-> SetItem(acc.notified, KeyOf(event, t), IsoFormat(now)),
     findings |-> Append(acc.findings, Finding(artist, event, t))]

\* A faulty variant of DedupOne: the timestamp is written outside the membership test.
DedupOneOverwrite(acc, artist, event, t, now) ==
    [notified |-> SetItem(acc.notified, KeyOf(event, t), IsoFormat(now)),
     findings |-> IF KeyOf(event, t) \notin DOMAIN acc.notified
                  THEN Append(acc.findings, Finding(artist, event, t))
                  ELSE acc.findings]

\* One iteration of `for t in tickets`; acc is [notified, findings].
DedupOne(acc, artist, event, t, now) ==
    IF KeyOf(event, t) \notin DOMAIN acc.notified
    THEN [notified |-> SetItem(acc.notified, KeyOf(event, t), IsoFormat(now)),
          findings |-> Append(acc.findings, Finding(artist, event, t))]
    ELSE acc

RECURSIVE Dedup(_, _, _, _, _)
\* The loop `for t in tickets` of one event.
Dedup(acc, artist, event, tks, now) ==
    IF tks = <<>> THEN acc
    ELSE Dedup(DedupOne(acc, artist, event, Head(tks), now),
               artist, event, Tail(tks), now)

\* A faulty variant of Prune: the boundary entry is kept.
PruneKeepBoundary(notified, now) ==
    LET cutoff == Timestamp(now) - RETENTION
        keep == {k \in DOMAIN notified :
                    Timestamp(FromIsoFormat(notified[k])) >= cutoff}
    IN  [k \in keep |-> notified[k]]

\* A faulty variant of Prune: nothing is dropped.
PruneNothing(notified, now) == notified

\* A faulty variant of Prune: the comparison is the wrong way round.
PruneReversed(notified, now) ==
    LET cutoff == Timestamp(now) - RETENTION
        keep == {k \in DOMAIN notified :
                    Timestamp(FromIsoFormat(notified[k])) < cutoff}
    IN  [k \in keep |-> notified[k]]

\* The pruning pass: cutoff = now - 30 days, keep what is later.
Prune(notified, now) ==
    LET cutoff == Timestamp(now) - RETENTION
        keep == {k \in DOMAIN notified :
                    Timestamp(FromIsoFormat(notified[k])) > cutoff}
    IN  [k \in keep |-> notified[k]]

\* save_state: the file it writes.
save_state(st, now) == FileOf([st EXCEPT !.last_check = IsoFormat(now)])

-----------------------------------------------------------------------------
(* What the site serves: the index pages and the event pages of the model *)

Link(aid, eid, text) == [aid |-> aid, eid |-> eid, tail |-> "", text |-> text]

\* The index pages an artist's URL may render to, as link sequences.
IndexPages(artist_id) ==
    IF artist_id = "38"
    THEN { <<Link("38", "101", "Tour A"), Link("38", "", "Travis Japan"),
             Link("38", "101", "Tour A"), Link("40", "201", "Live C"),
             Link("38", "102", "Tour B")>> }
    ELSE { <<Link("40", "", "SixTONES")>>,
           <<Link("40", "201", "Live C")>> }

Block(muted, date, venue, selects) ==
    [muted |-> muted, date |-> date, venue |-> venue, selects |-> selects]

Button(tag, text) == [tag |-> tag, text |-> text]

PageOf(blocks, orphans, buttons) ==
    [blocks |-> blocks, orphans |-> orphans, buttons |-> buttons]

NoPage == PageOf(<<>>, 0, <<>>)

SoldOut     == PageOf(<<Block(TRUE, "12/25", "Hall A", <<>>)>>, 0, <<>>)
OnSaleTwice == PageOf(<<Block(FALSE, "12/25", "Hall A", << <<"1">>, <<"1", "2">> >>),
                        Block(TRUE, "12/26", "Hall A", <<>>)>>, 0,
                      <<Button("button", PURCHASE), Button("button", PURCHASE)>>)
ActiveOnly  == PageOf(<<Block(FALSE, "12/25", "Hall A", <<>>)>>, 0, <<>>)
SoldOutLogin == PageOf(<<Block(TRUE, "12/25", "Hall A", <<>>),
                         Block(TRUE, None, None, <<>>)>>, 0,
                       <<Button("a", "login")>>)

\* The pages an event's URL may render to in a poll cycle: event 101 may
\* also show the block without its muted marker and without a control; the
\* sold-out page of event 201 has a second muted block and a login link.
EventPages(path) ==
    IF path = "/events/artist/38/101"
    THEN {SoldOut, OnSaleTwice, ActiveOnly}
    ELSE IF path = "/events/artist/40/201"
    THEN {SoldOutLogin, OnSaleTwice}
    ELSE {SoldOut, OnSaleTwice}

\* Outcomes of one send_line call: 200, another status, a transport exception.
Outcomes == {"ok", "fail", "error"}

\* wait_for_timeout(1500) and wait_for_timeout(2000), in whole seconds.
ListSettleSecs == 1
EventSettleSecs == 2

\* Poll cycles the model follows.
MaxCycles == 2

\* The state file an earlier run left: a cycle started at second 0 found
\* events 101 and 102 on sale (entries of seconds 3 and 5) and ended at 8.
PriorFile ==
    FileOf([notified |->
               SetItem(SetItem(EmptyMap, Key("/events/artist/38/101", "12/25", "Hall A"),
                               IsoFormat(Now(3))),
                       Key("/events/artist/38/102", "12/25", "Hall A"),
                       IsoFormat(Now(5))),
            last_check |-> IsoFormat(Now(8))])

\* The process starts with no state file, or with PriorFile about thirty
\* days after it was written.
Starts ==
    {[file |-> Absent, clock |-> 0]} \cup
    {[file |-> PriorFile, clock |-> c] :
        c \in {RETENTION - 5, RETENTION - 4}}

-----------------------------------------------------------------------------
(* The process: main and run_check *)

NoState == [notified |-> EmptyMap, last_check |-> NoTime]
NoPruned == [before |-> EmptyMap, now |-> 0]
NoTold == [k \in {} |-> [method |-> "", tickets |-> <<>>]]

\* told, once a cycle with the Findings fs has completed.
ToldAfter(was, fs) ==
    LET ks == {FindingKey(fs[i]) : i \in DOMAIN fs}
        of(k) == CHOOSE i \in DOMAIN fs : FindingKey(fs[i]) = k
    IN  [k \in DOMAIN was \cup ks |->
            IF k \in ks
            THEN [method |-> fs[of(k)].method, tickets |-> fs[of(k)].tickets]
            ELSE was[k]]

Init ==
    /\ once \in BOOLEAN
    /\ pc = "idle"
    /\ exit = "running"
    /\ \E s \in Starts : clock = s.clock /\ file = s.file
    /\ state = NoState
    /\ new_findings = <<>>
    /\ ai = 0
    /\ events = <<>>
    /\ ei = 0
    /\ tickets = <<>>
    /\ di = 0
    /\ cycles = 0
    /\ cycle = "none"
    /\ loaded = EmptyMap
    /\ seen = {}
    /\ failed = {}
    /\ listFailed = {}
    /\ sent = <<>>
    /\ pruned = NoPruned
    /\ cycleEnd = -1
    /\ page = NoPage
    /\ committed = file
    /\ listed = {}
    /\ polled = {}
    /\ prev = "none"
    /\ started = -1
    /\ asked = {}
    /\ dropped = {}
    /\ told = NoTold

\* A faulty variant of MainOnException: the loop of main has no `except Exception`.
MainOnExceptionNoCatch(o) == [pc |-> "exited", exit |-> "crash"]

\* main, when an Exception escapes run_check: --once has no handler and the
\* process dies with the traceback; the loop logs it and goes on to the wait.
MainOnException(o) ==
    IF o THEN [pc |-> "exited", exit |-> "crash"]
    ELSE [pc |-> "sleep", exit |-> "running"]

\* A faulty variant of MainOnReturn: main does not look at `once`.
MainOnReturnLoops(o) == [pc |-> "sleep", exit |-> "running"]

\* main, when run_check returns: --once returns, the loop goes on to the wait.
MainOnReturn(o) ==
    IF o THEN [pc |-> "exited", exit |-> "ok"]
    ELSE [pc |-> "sleep", exit |-> "running"]

\* The keys of the Findings fs for which the calls snt hold no call.
Undelivered(fs, snt) ==
    {FindingKey(fs[i]) : i \in DOMAIN fs} \ {snt[i][1] : i \in DOMAIN snt}

\* An Exception leaves run_check (through `finally: browser.close()` when the
\* browser is up) and reaches main.
Escapes ==
    /\ pc' = MainOnException(once).pc
    /\ exit' = MainOnException(once).exit
    /\ cycle' = "aborted"
    /\ cycleEnd' = clock'
    /\ dropped' = Undelivered(new_findings, sent)

\* A faulty variant of AfterArtist: the delivery loop follows every artist.
AfterArtistDeliverEach(a) == [pc |-> "notify", ai |-> a + 1, di |-> 1]

\* The position after the artist at index a is done: the next artist, or the
\* end of the scan (browser closed, delivery loop entered).
AfterArtist(a) ==
    IF a < Len(ARTISTS)
    THEN [pc |-> "artists", ai |-> a + 1, di |-> 0]
    ELSE [pc |-> "notify", ai |-> a + 1, di |-> 1]

\* A faulty variant of StartCycle: the mapping is pruned when it is loaded, before
\* the scan.
StartCyclePruneFirst ==
    /\ pc = "idle"
    /\ cycles < MaxCycles
    /\ file.kind # "corrupt"
    /\ state' = [load_state(file) EXCEPT !.notified = Prune(@, Now(clock))]
    /\ loaded' = load_state(file).notified
    /\ new_findings' = <<>>
    /\ pc' = "artists"
    /\ ai' = 1
    /\ cycles' = cycles + 1
    /\ cycle' = "running"
    /\ started' = clock
    /\ UNCHANGED <<once, dropped, asked, told, exit, clock, file, events, ei, tickets,
                   di, seen, failed, listFailed, sent, pruned, cycleEnd, page,
                   committed, listed, polled, prev>>

\* run_check up to the scan: load_state, browser launch, new page.
StartCycle ==
    /\ pc = "idle"
    /\ cycles < MaxCycles
    /\ file.kind # "corrupt"
    /\ state' = load_state(file)
    /\ loaded' = load_state(file).notified
    /\ new_findings' = <<>>
    /\ pc' = "artists"
    /\ ai' = 1
    /\ cycles' = cycles + 1
    /\ cycle' = "running"
    /\ started' = clock
    /\ UNCHANGED <<once, dropped, asked, told, exit, clock, file, events, ei, tickets, di, seen,
                   failed, listFailed, sent, pruned, cycleEnd, page, committed, listed, polled,
                   prev>>

\* run_check fails before the scan: json.loads raises on the file, or the
\* browser cannot be launched.
StartCycleFail ==
    /\ pc = "idle"
    /\ cycles < MaxCycles
    /\ cycles' = cycles + 1
    /\ UNCHANGED <<once, asked, started, told, clock, file, state, new_findings, ai, events, ei,
                   tickets, di, loaded, seen, failed, listFailed, sent,
                   pruned, page, committed, listed, polled,
                   prev>>
    /\ Escapes

\* A faulty variant of ListEvents: the artist is looked up with
\* ARTIST_IDS[artist_name], which raises KeyError for an unknown name.
ListEventsUnknownRaises ==
    /\ pc = "artists"
    /\ asked' = asked \cup {ARTISTS[ai]}
    /\ IF Resolvable(ARTISTS[ai])
       THEN /\ \E links \in IndexPages(ARTIST_IDS[ARTISTS[ai]]) :
                 LET evs == ExtractEvents(links, ARTIST_IDS[ARTISTS[ai]]) IN
                 /\ events' = evs
                 /\ listed' = listed \cup {evs[i].path : i \in DOMAIN evs}
                 /\ IF evs = <<>>
                    THEN /\ pc' = AfterArtist(ai).pc
                         /\ ai' = AfterArtist(ai).ai
                         /\ di' = AfterArtist(ai).di
                         /\ ei' = 0
                    ELSE /\ pc' = "events"
                         /\ ei' = 1
                         /\ UNCHANGED <<ai, di>>
            /\ clock' = clock + ListSettleSecs
            /\ UNCHANGED <<exit, cycle, cycleEnd, dropped>>
       ELSE /\ UNCHANGED <<clock, events, listed, ai, di, ei>>
            /\ Escapes
    /\ UNCHANGED <<once, started, told, file, state, new_findings, tickets,
                   cycles, loaded, seen, failed, listFailed, sent, pruned,
                   page, committed, polled, prev>>

\* get_event_urls returns: [] for an unknown artist (no page is rendered),
\* otherwise the events of the rendered index page.  An empty list moves on
\* to the next artist.
ListEvents ==
    /\ pc = "artists"
    /\ LET artist == ARTISTS[ai] IN
       \E links \in (IF Resolvable(artist)
                     THEN IndexPages(ARTIST_IDS[artist]) ELSE {<<>>}) :
          LET evs == get_event_urls(links, artist) IN
          /\ clock' = IF Resolvable(artist) THEN clock + ListSettleSecs ELSE clock
          /\ events' = evs
          /\ asked' = asked \cup {artist}
          /\ listed' = listed \cup {evs[i].path : i \in DOMAIN evs}
          /\ IF evs = <<>>
             THEN /\ pc' = AfterArtist(ai).pc
                  /\ ai' = AfterArtist(ai).ai
                  /\ di' = AfterArtist(ai).di
                  /\ ei' = 0
             ELSE /\ pc' = "events"
                  /\ ei' = 1
                  /\ UNCHANGED <<ai, di>>
    /\ UNCHANGED <<once, dropped, started, told, exit, file, state, new_findings, tickets, cycles,
                   cycle, loaded, seen, failed, listFailed, sent, pruned,
                   cycleEnd, page, committed, polled,
                   prev>>

\* page.goto of the index page raises (timeout, network): nothing in
\* get_event_urls or around its call catches it.
ListEventsFail ==
    /\ pc = "artists"
    /\ Resolvable(ARTISTS[ai])
    /\ clock' = clock + ListSettleSecs
    /\ listFailed' = listFailed \cup {ARTISTS[ai]}
    /\ asked' = asked \cup {ARTISTS[ai]}
    /\ UNCHANGED <<once, started, told, file, state, new_findings, ai, events, ei, tickets,
                   di, cycles, loaded, seen, failed, sent, pruned, page, committed, listed, polled,
                   prev>>
    /\ Escapes

\* The position after the event at index e of the current artist.
AfterEvent(a, e, evs) ==
    IF e < Len(evs)
    THEN [pc |-> "events", ai |-> a, ei |-> e + 1, di |-> 0]
    ELSE [pc |-> AfterArtist(a).pc, ai |-> AfterArtist(a).ai, ei |-> e + 1,
          di |-> AfterArtist(a).di]

\* A faulty variant of CheckEvent: state is written through on every poll of an event.
CheckEventWriteThrough ==
    /\ pc = "events"
    /\ \E pg \in EventPages(events[ei].path) :
          LET tks == check_event_tickets(pg)
              now == Now(clock + EventSettleSecs)
              acc == Dedup([notified |-> state.notified, findings |-> new_findings],
                           ARTISTS[ai], events[ei], tks, now)
          IN  /\ clock' = clock + EventSettleSecs
              /\ page' = pg
              /\ tickets' = tks
              /\ state' = [state EXCEPT !.notified = acc.notified]
              /\ file' = save_state(state', now)
              /\ new_findings' = acc.findings
              /\ seen' = seen \cup {KeyOf(events[ei], tks[i]) : i \in DOMAIN tks}
    /\ polled' = polled \cup {events[ei].path}
    /\ pc' = AfterEvent(ai, ei, events).pc
    /\ ai' = AfterEvent(ai, ei, events).ai
    /\ ei' = AfterEvent(ai, ei, events).ei
    /\ di' = AfterEvent(ai, ei, events).di
    /\ UNCHANGED <<once, dropped, asked, started, told, exit, events, cycles, cycle, loaded, failed,
                   listFailed, sent, pruned, cycleEnd, committed, listed,
                   prev>>

\* One iteration of `for event in events` in which check_event_tickets
\* returns: render, detect, then the dedup loop over its tickets.
CheckEvent ==
    /\ pc = "events"
    /\ \E pg \in EventPages(events[ei].path) :
          LET tks == check_event_tickets(pg)
              now == Now(clock + EventSettleSecs)
              acc == Dedup([notified |-> state.notified, findings |-> new_findings],
                           ARTISTS[ai], events[ei], tks, now)
          IN  /\ clock' = clock + EventSettleSecs
              /\ page' = pg
              /\ tickets' = tks
              /\ state' = [state EXCEPT !.notified = acc.notified]
              /\ new_findings' = acc.findings
              /\ seen' = seen \cup {KeyOf(events[ei], tks[i]) : i \in DOMAIN tks}
    /\ polled' = polled \cup {events[ei].path}
    /\ pc' = AfterEvent(ai, ei, events).pc
    /\ ai' = AfterEvent(ai, ei, events).ai
    /\ ei' = AfterEvent(ai, ei, events).ei
    /\ di' = AfterEvent(ai, ei, events).di
    /\ UNCHANGED <<once, dropped, asked, started, told, exit, file, events, cycles, cycle, loaded, failed,
                   listFailed, sent, pruned, cycleEnd, committed, listed,
                   prev>>

\* A faulty variant of CheckEventFail: the exception is not caught per event.
CheckEventFailEscapes ==
    /\ pc = "events"
    /\ clock' = clock + EventSettleSecs
    /\ failed' = failed \cup {events[ei].path}
    /\ polled' = polled \cup {events[ei].path}
    /\ UNCHANGED <<once, asked, started, told, file, state, new_findings, ai, events, ei, tickets,
                   di, cycles, loaded, seen, listFailed, sent, pruned, page, committed, listed,
                   prev>>
    /\ Escapes

\* One iteration in which check_event_tickets raises an Exception: it is
\* logged and the loop continues with the next event.
CheckEventFail ==
    /\ pc = "events"
    /\ clock' = clock + EventSettleSecs
    /\ failed' = failed \cup {events[ei].path}
    /\ polled' = polled \cup {events[ei].path}
    /\ pc' = AfterEvent(ai, ei, events).pc
    /\ ai' = AfterEvent(ai, ei, events).ai
    /\ ei' = AfterEvent(ai, ei, events).ei
    /\ di' = AfterEvent(ai, ei, events).di
    /\ UNCHANGED <<once, dropped, asked, started, told, exit, file, state, new_findings, events, tickets,
                   cycles, cycle, loaded, seen, listFailed, sent, pruned,
                   cycleEnd, page, committed, listed,
                   prev>>

\* A faulty variant of Deliver: a failed send_line call raises out of run_check.
DeliverRaises ==
    /\ pc = "notify"
    /\ di <= Len(new_findings)
    /\ \E outcome \in Outcomes :
          /\ sent' = Append(sent, <<FindingKey(new_findings[di]), outcome>>)
          /\ IF outcome = "ok"
             THEN /\ di' = di + 1
                  /\ UNCHANGED <<pc, exit, cycle, cycleEnd, dropped>>
             ELSE /\ UNCHANGED di
                  /\ pc' = MainOnException(once).pc
                  /\ exit' = MainOnException(once).exit
                  /\ cycle' = "aborted"
                  /\ cycleEnd' = clock
                  /\ dropped' = Undelivered(new_findings, sent')
    /\ UNCHANGED <<once, asked, started, told, clock, file, state, new_findings, ai, events, ei,
                   tickets, cycles, loaded, seen, failed, listFailed, pruned,
                   page, committed, listed, polled,
                   prev>>

\* A faulty variant of Deliver: the delivery loop ends after its first call.
DeliverFirstOnly ==
    /\ pc = "notify"
    /\ di <= Len(new_findings)
    /\ \E outcome \in Outcomes :
          sent' = Append(sent, <<FindingKey(new_findings[di]), outcome>>)
    /\ di' = Len(new_findings) + 1
    /\ UNCHANGED <<once, dropped, asked, started, told, pc, exit, clock, file,
                   state, new_findings, ai, events, ei, tickets, cycles, cycle,
                   loaded, seen, failed, listFailed, pruned, cycleEnd, page,
                   committed, listed, polled, prev>>

\* One iteration of `for f in new_findings`: send_line logs a non-200
\* response and catches every Exception of the request; notify_desktop
\* swallows its own.
Deliver ==
    /\ pc = "notify"
    /\ di <= Len(new_findings)
    /\ \E outcome \in Outcomes :
          sent' = Append(sent, <<FindingKey(new_findings[di]), outcome>>)
    /\ di' = di + 1
    /\ UNCHANGED <<once, dropped, asked, started, told, pc, exit, clock, file, state, new_findings, ai,
                   events, ei, tickets, cycles, cycle, loaded, seen, failed,
                   listFailed, pruned, cycleEnd, page, committed, listed, polled,
                   prev>>

\* A faulty variant of PrunePass: the pruning pass keeps the entry at the boundary.
PrunePassKeepBoundary ==
    /\ pc = "notify"
    /\ di > Len(new_findings)
    /\ pruned' = [before |-> state.notified, now |-> Now(clock)]
    /\ state' = [state EXCEPT !.notified = PruneKeepBoundary(state.notified, Now(clock))]
    /\ pc' = "save"
    /\ UNCHANGED <<once, dropped, asked, started, told, exit, clock, file, new_findings, ai, events, ei,
                   tickets, di, cycles, cycle, loaded, seen, failed,
                   listFailed, sent, cycleEnd, page, committed, listed, polled,
                   prev>>

\* The pruning pass, once the delivery loop is over.
PrunePass ==
    /\ pc = "notify"
    /\ di > Len(new_findings)
    /\ pruned' = [before |-> state.notified, now |-> Now(clock)]
    /\ state' = [state EXCEPT !.notified = Prune(state.notified, Now(clock))]
    /\ pc' = "save"
    /\ UNCHANGED <<once, dropped, asked, started, told, exit, clock, file, new_findings, ai, events, ei,
                   tickets, di, cycles, cycle, loaded, seen, failed,
                   listFailed, sent, cycleEnd, page, committed, listed, polled,
                   prev>>

\* save_state writes the file and run_check returns to main.
SaveState ==
    /\ pc = "save"
    /\ file' = save_state(state, Now(clock))
    /\ state' = [state EXCEPT !.last_check = IsoFormat(Now(clock))]
    /\ pc' = MainOnReturn(once).pc
    /\ exit' = MainOnReturn(once).exit
    /\ cycle' = "completed"
    /\ cycleEnd' = clock
    /\ committed' = file'
    /\ told' = ToldAfter(told, new_findings)
    /\ UNCHANGED <<once, dropped, asked, started, clock, new_findings, ai, events, ei, tickets, di,
                   cycles, loaded, seen, failed, listFailed, sent, pruned,
                   page, listed, polled, prev>>

\* write_text raises (disk full, no permission): the file keeps its old
\* contents or is left truncated.
SaveStateFail ==
    /\ pc = "save"
    /\ file' \in {file, Corrupt}
    /\ UNCHANGED <<once, asked, started, told, clock, state, new_findings, ai, events, ei, tickets,
                   di, cycles, loaded, seen, failed, listFailed, sent, pruned,
                   page, committed, listed, polled,
                   prev>>
    /\ Escapes

\* The locals of run_check are gone once main moves on.
ForgetCycle ==
    /\ state' = NoState
    /\ new_findings' = <<>>
    /\ ai' = 0
    /\ events' = <<>>
    /\ ei' = 0
    /\ tickets' = <<>>
    /\ di' = 0
    /\ loaded' = EmptyMap
    /\ seen' = {}
    /\ failed' = {}
    /\ listFailed' = {}
    /\ sent' = <<>>
    /\ pruned' = NoPruned
    /\ listed' = {}
    /\ polled' = {}
    /\ page' = NoPage
    /\ started' = -1
    /\ asked' = {}

\* asyncio.sleep(CHECK_INTERVAL), then the next iteration of `while True`.
Sleep ==
    /\ pc = "sleep"
    /\ clock' = clock + CHECK_INTERVAL
    /\ pc' = "idle"
    /\ ForgetCycle
    /\ cycle' = "none"
    /\ prev' = cycle
    /\ dropped' = IF cycle = "aborted" THEN dropped ELSE {}
    /\ UNCHANGED <<once, told, exit, file, cycles, cycleEnd, committed>>

\* KeyboardInterrupt (Ctrl-C, SIGINT) at any point of the process: the loop
\* breaks or the interrupt reaches __main__, and the process ends.
Interrupt ==
    /\ pc # "exited"
    /\ pc' = "exited"
    /\ exit' = "interrupted"
    /\ cycle' = IF cycle = "running" THEN "interrupted" ELSE cycle
    /\ ForgetCycle
    /\ UNCHANGED <<once, dropped, told, clock, file, cycles, cycleEnd, committed, prev>>

Next ==
    \/ StartCycle
    \/ StartCycleFail
    \/ ListEvents
    \/ ListEventsFail
    \/ CheckEvent
    \/ CheckEventFail
    \/ Deliver
    \/ PrunePass
    \/ SaveState
    \/ SaveStateFail
    \/ Sleep
    \/ Interrupt

Spec == Init /\ [][Next]_vars

TypeOK ==
    /\ once \in BOOLEAN
    /\ pc \in {"idle", "artists", "events", "notify", "save", "sleep", "exited"}
    /\ exit \in {"running", "ok", "crash", "interrupted"}
    /\ cycles \in 0..MaxCycles

-----------------------------------------------------------------------------
(* The detector on its own: one event page, rendered, then classified *)

MaxBlocks == 2
MaxButtons == 2

RECURSIVE SeqsUpTo(_, _)
\* The sequences over S of length at most n.
SeqsUpTo(S, n) ==
    IF n = 0 THEN {<<>>}
    ELSE LET shorter == SeqsUpTo(S, n - 1)
         IN  shorter \cup {Append(q, x) : q \in shorter, x \in S}

DetectBlocks ==
    {Block(m, dv[1], dv[2], sel) :
        m \in BOOLEAN,
        dv \in {<<"12/25", "Hall A">>, <<None, None>>},
        sel \in {<<>>, << <<"1">> >>, << <<"1", "2">>, <<>> >>}}

DetectButtons ==
    {Button("button", PURCHASE), Button("a", "login"), Button("input", PURCHASE)}

DetectPages ==
    {PageOf(bs, o, bt) :
        bs \in SeqsUpTo(DetectBlocks, MaxBlocks),
        o \in {0, 1},
        bt \in SeqsUpTo(DetectButtons, MaxButtons)}

DetectInit ==
    /\ page \in DetectPages
    /\ pc = "rendered"
    /\ once = TRUE
    /\ exit = "running"
    /\ clock = 0
    /\ file = Absent
    /\ state = NoState
    /\ new_findings = <<>>
    /\ ai = 0
    /\ events = <<>>
    /\ ei = 0
    /\ tickets = <<>>
    /\ di = 0
    /\ cycles = 0
    /\ cycle = "none"
    /\ loaded = EmptyMap
    /\ seen = {}
    /\ failed = {}
    /\ listFailed = {}
    /\ sent = <<>>
    /\ pruned = NoPruned
    /\ cycleEnd = -1
    /\ committed = Absent
    /\ listed = {}
    /\ polled = {}
    /\ prev = "none"
    /\ started = -1
    /\ asked = {}
    /\ dropped = {}
    /\ told = NoTold

\* check_event_tickets on the rendered page.
Detect ==
    /\ pc = "rendered"
    /\ tickets' = check_event_tickets(page)
    /\ pc' = "detected"
    /\ UNCHANGED <<once, dropped, asked, started, told, exit, clock, file, state, new_findings, ai, events,
                   ei, di, cycles, cycle, loaded, seen, failed, listFailed,
                   sent, pruned, cycleEnd, page, committed, listed, polled,
                   prev>>

DetectNext == Detect

DetectSpec == DetectInit /\ [][DetectNext]_vars

-----------------------------------------------------------------------------
(* Properties *)

RECURSIVE SumLens(_)
SumLens(ss) == IF ss = <<>> THEN 0 ELSE Len(Head(ss)) + SumLens(Tail(ss))

\* Number of .ticket-select controls inside the performance blocks of a page.
ControlsInBlocks(pg) == SumLens([i \in DOMAIN pg.blocks |-> pg.blocks[i].selects])

Methods(tks) == {tks[i].method : i \in DOMAIN tks}

\* C10: the detector's strategies pre-empt each other in order.  A page with
\* at least one selection control inside a performance block yields exactly
\* one entry per such control, all of method select; entries of method active
\* appear only when no such control exists, and then no other method does;
\* entries of method button appear only when there is neither such a control
\* nor a block without the muted marker.
C10_StrategyPriority ==
    pc = "detected" =>
        /\ ControlsInBlocks(page) > 0 =>
              /\ Len(tickets) = ControlsInBlocks(page)
              /\ Methods(tickets) = {"select"}
        /\ "active" \in Methods(tickets) =>
              /\ ControlsInBlocks(page) = 0
              /\ Methods(tickets) = {"active"}
        /\ "button" \in Methods(tickets) =>
              /\ ControlsInBlocks(page) = 0
              /\ \A i \in DOMAIN page.blocks : page.blocks[i].muted
              /\ Methods(tickets) = {"button"}

\* A page with a control in one block, a muted block, a block that is neither
\* muted nor has a control, and a purchase button: only select entries.
C10_Witness ==
    /\ pc = "detected"
    /\ ControlsInBlocks(page) > 0
    /\ \E i \in DOMAIN page.blocks : page.blocks[i].muted
    /\ \E i \in DOMAIN page.blocks :
          ~page.blocks[i].muted /\ page.blocks[i].selects = <<>>
    /\ \E i \in DOMAIN page.buttons : GetText(page.buttons[i]) = PURCHASE
    /\ Methods(tickets) = {"select"}

-----------------------------------------------------------------------------
(* Properties of the poll cycle *)

\* The keys of the notified mapping in the state file.
FileKeys(f) == IF f.kind = "dict" THEN DOMAIN f.notified ELSE {}

FindingKeys == {FindingKey(new_findings[i]) : i \in DOMAIN new_findings}

K101 == Key("/events/artist/38/101", "12/25", "Hall A")
K102 == Key("/events/artist/38/102", "12/25", "Hall A")
K201 == Key("/events/artist/40/201", "12/25", "Hall A")

\* C1: a key that the notified mapping held when the cycle loaded it never
\* becomes a Finding of that cycle and never gets a delivery call; no key
\* becomes a Finding twice in one cycle; the delivery calls of a cycle are
\* those of its Findings, one each, in order.
C1_NoRenotify ==
    /\ \A i \in DOMAIN new_findings :
          FindingKey(new_findings[i]) \notin DOMAIN loaded
    /\ \A i, j \in DOMAIN new_findings :
          FindingKey(new_findings[i]) = FindingKey(new_findings[j]) => i = j
    /\ Len(sent) <= Len(new_findings)
    /\ \A i \in DOMAIN sent : sent[i][1] = FindingKey(new_findings[i])

\* A completed cycle that observed a key it had loaded, and met one new key
\* twice on one page: one Finding, one delivery call.
C1_Witness ==
    /\ cycle = "completed"
    /\ K101 \in DOMAIN loaded
    /\ K101 \in seen
    /\ Len(tickets) = 2
    /\ tickets[1].date = tickets[2].date
    /\ tickets[1].venue = tickets[2].venue
    /\ K201 \in seen
    /\ Cardinality({i \in DOMAIN new_findings : FindingKey(new_findings[i]) = K201}) = 1
    /\ Cardinality({i \in DOMAIN sent : sent[i][1] = K201}) = 1

\* C2: an Exception of check_event_tickets for one event changes neither the
\* mapping nor the Findings nor the file, and the loop goes on to the next
\* event, the next artist or the delivery loop; a cycle that completes has
\* polled every event that was listed, every new key of the events that did
\* not raise is a Finding with a delivery call and is in the file, and no key
\* of an event that raised was added or removed before the pruning pass.
C2_StepOk ==
    (\E ev \in failed' : ev \notin failed) =>
        /\ state' = state
        /\ new_findings' = new_findings
        /\ file' = file
        /\ cycle' = "running"
        /\ \/ pc' = "events" /\ ai' = ai /\ ei' = ei + 1 /\ ei < Len(events)
           \/ pc' = "artists" /\ ai' = ai + 1 /\ ei = Len(events)
           \/ pc' = "notify" /\ ai = Len(ARTISTS) /\ ei = Len(events)

C2_AtEnd ==
    cycle = "completed" =>
        /\ polled = listed
        /\ \A k \in seen \ DOMAIN loaded :
              /\ \E i \in DOMAIN sent :
                    sent[i][1] = k /\ FindingKey(new_findings[i]) = k
              /\ k \in FileKeys(file)
        /\ \A i \in DOMAIN new_findings : new_findings[i].path \notin failed
        /\ DOMAIN pruned.before = DOMAIN loaded \cup FindingKeys

\* C2: the step property and the end-of-cycle property together.
C2_Isolation == [][C2_StepOk]_vars /\ []C2_AtEnd

\* Event 102 raised; 101 and 201 were new, were delivered and are in the file.
C2_Witness ==
    /\ cycle = "completed"
    /\ failed = {"/events/artist/38/102"}
    /\ FindingKeys = {K101, K201}
    /\ Len(sent) = 2
    /\ {K101, K201} \subseteq FileKeys(file)
    /\ K102 \notin FileKeys(file)

\* C3 (as claimed): a failure to render an artist's index page is treated as
\* an empty event list: the cycle goes on with the next artist (or with the
\* delivery loop after the last one) and keeps its Findings.
C3_ListFailureIsolated ==
    [][(\E a \in listFailed' : a \notin listFailed) =>
          /\ cycle' = "running"
          /\ new_findings' = new_findings
          /\ ai' = ai + 1
          /\ pc' \in {"artists", "notify"}]_vars

\* C4: a send_line call, whatever its outcome, is followed by the next
\* iteration of the delivery loop and leaves the mapping alone; a cycle that
\* completes has made one call per Finding, and the key of every Finding,
\* also of one whose call failed, is in the file.
C4_StepOk ==
    Len(sent') > Len(sent) =>
        /\ di' = di + 1
        /\ pc' = "notify"
        /\ cycle' = "running"
        /\ state' = state
        /\ new_findings' = new_findings

C4_AtEnd ==
    cycle = "completed" =>
        /\ Len(sent) = Len(new_findings)
        /\ \A i \in DOMAIN sent :
              /\ sent[i][1] = FindingKey(new_findings[i])
              /\ sent[i][1] \in FileKeys(file)

\* C4: the step property and the end-of-cycle property together.
C4_DeliveryFailureIsolated == [][C4_StepOk]_vars /\ []C4_AtEnd

\* The first call failed, a later call was made, both keys are in the file.
C4_Witness ==
    /\ cycle = "completed"
    /\ Len(sent) >= 2
    /\ sent[1][2] \in {"fail", "error"}
    /\ sent[1][1] \in FileKeys(file)
    /\ sent[2][1] \in FileKeys(file)

\* C5: the file changes only in the step that leaves the save point, which
\* is reached with the scan over, every Finding handed to send_line and the
\* pruning pass done; as long as no write has failed half-way the file is
\* the one the latest completed cycle wrote.
C5_StepOk ==
    file' # file =>
        /\ pc = "save"
        /\ cycle = "running"
        /\ ai > Len(ARTISTS)
        /\ di > Len(new_findings)
        /\ Len(sent) = Len(new_findings)
        /\ pruned.now = Now(clock)
        /\ \/ file' = FileOf([state EXCEPT !.last_check = IsoFormat(Now(clock))])
           \/ file' = Corrupt

\* C5: the file is written only at the end of a cycle, and is otherwise
\* the file of the latest completed cycle.
C5_WriteOnlyAtEnd ==
    [][C5_StepOk]_vars /\ [](file # Corrupt => file = committed)

\* The second cycle found a new key and was then aborted: the file is still
\* the one the first cycle wrote, without that key.
C5_Witness ==
    /\ cycles = 2
    /\ cycle = "aborted"
    /\ new_findings # <<>>
    /\ file.kind = "dict"
    /\ file = committed
    /\ FindingKey(new_findings[1]) \notin FileKeys(file)

\* The program steps, without the interrupt.
Step ==
    \/ StartCycle
    \/ StartCycleFail
    \/ ListEvents
    \/ ListEventsFail
    \/ CheckEvent
    \/ CheckEventFail
    \/ Deliver
    \/ PrunePass
    \/ SaveState
    \/ SaveStateFail
    \/ Sleep

\* The continuous mode.  Every await of the process returns or raises
\* (navigation and request timeouts, the sleep), so the process always takes
\* its next step.
LiveInit == Init /\ ~once

LiveSpec == LiveInit /\ [][Next]_vars /\ WF_vars(Step)

\* C6: in continuous mode an Exception that ends a cycle leads to the wait,
\* not to the end of the process; the wait lasts CHECK_INTERVAL seconds and
\* leads to the next cycle; a cycle starts only from the top of the loop,
\* with no cycle in progress and, after an earlier cycle of the process, no
\* sooner than CHECK_INTERVAL seconds after its end; and unless the process
\* is interrupted, every wait is followed by the start of another cycle.
C6_StepOk ==
    /\ (~once /\ cycle # "aborted" /\ cycle' = "aborted") =>
          pc' = "sleep" /\ exit' = "running"
    /\ (pc = "sleep" /\ pc' # "sleep") =>
          \/ pc' = "idle" /\ clock' = clock + CHECK_INTERVAL
          \/ exit' = "interrupted"
    /\ cycles' # cycles =>
          /\ cycles' = cycles + 1
          /\ pc = "idle"
          /\ cycle = "none"
          /\ cycleEnd >= 0 => clock >= cycleEnd + CHECK_INTERVAL

\* C6: the step property, and every wait leads to another cycle.
C6_LoopGoesOn ==
    /\ [][C6_StepOk]_vars
    /\ (pc = "sleep" /\ cycles < MaxCycles)
          ~> ((pc = "idle" /\ cycles < MaxCycles) \/ exit = "interrupted")
    /\ (pc = "idle" /\ cycles < MaxCycles)
          ~> (cycle \in {"running", "aborted"} \/ exit = "interrupted")

\* A cycle runs after the previous cycle of the same process was aborted.
C6_Witness ==
    /\ ~once
    /\ prev = "aborted"
    /\ cycle = "running"
    /\ cycles = 2

\* C7 (as claimed): the process never ends abnormally.
C7_NothingFatal == exit # "crash"

\* Seconds since the epoch of an entry of the mapping.
EntryEpoch(iso) == iso[2] - UtcOffset

\* C8: right after the pruning pass the mapping holds exactly the entries
\* that were later than now - 30 days, unchanged; an entry of
\* now - 30 days - 1 s is gone, one of now - 30 days + 1 s is kept, and one of
\* exactly now - 30 days is gone.
C8_PruneBoundary ==
    pc = "save" =>
        /\ DOMAIN state.notified =
              {k \in DOMAIN pruned.before :
                  EntryEpoch(pruned.before[k]) > clock - 30 * 86400}
        /\ \A k \in DOMAIN state.notified : state.notified[k] = pruned.before[k]
        /\ \A k \in DOMAIN pruned.before :
              /\ EntryEpoch(pruned.before[k]) = clock - 30 * 86400 - 1
                    => k \notin DOMAIN state.notified
              /\ EntryEpoch(pruned.before[k]) = clock - 30 * 86400
                    => k \notin DOMAIN state.notified
              /\ EntryEpoch(pruned.before[k]) = clock - 30 * 86400 + 1
                    => k \in DOMAIN state.notified

\* One pruning pass that met an entry one second too old and an entry one
\* second short of the limit.
C8_Witness ==
    /\ pc = "save"
    /\ \E k1, k2 \in DOMAIN pruned.before :
          /\ EntryEpoch(pruned.before[k1]) = clock - 30 * 86400 - 1
          /\ k1 \notin DOMAIN state.notified
          /\ EntryEpoch(pruned.before[k2]) = clock - 30 * 86400 + 1
          /\ k2 \in DOMAIN state.notified

\* C9: however often a key is observed, its entry keeps the timestamp it was
\* first given: until the pruning pass of a cycle, every loaded entry is
\* still there with the loaded timestamp, and from one state of the file to
\* the next an entry that stays keeps its timestamp.
C9_StateOk ==
    (cycle = "running" /\ pc \in {"artists", "events", "notify"}) =>
        \A k \in DOMAIN loaded :
            k \in DOMAIN state.notified /\ state.notified[k] = loaded[k]

C9_StepOk ==
    \A k \in FileKeys(file) \cap FileKeys(file') :
        file'.notified[k] = file.notified[k]

\* C9: a loaded entry keeps its timestamp during the cycle and in the file.
C9_MarkIdempotent == []C9_StateOk /\ [][C9_StepOk]_vars

\* A key was observed again by a later cycle and is in the file with the
\* timestamp it had.
C9_Witness ==
    /\ cycle = "completed"
    /\ \E k \in seen \cap DOMAIN loaded :
          /\ k \in FileKeys(file)
          /\ file.notified[k] = loaded[k]
          /\ EntryEpoch(loaded[k]) < clock

-----------------------------------------------------------------------------
(* Properties of one poll of an event *)

\* A page on which nothing is on sale: every performance block is muted,
\* there is no selection control at all, and no clickable element carries
\* the purchase text.
NothingOnSale(pg) ==
    /\ \A i \in DOMAIN pg.blocks : pg.blocks[i].muted
    /\ ControlsInBlocks(pg) = 0
    /\ pg.orphans = 0
    /\ \A i \in DOMAIN pg.buttons : pg.buttons[i].text # PURCHASE

\* The step is one iteration of the event loop in which the detector returned.
Polls == pc = "events" /\ (\E ev \in polled' : ev \notin polled) /\ failed' = failed

\* C11: when the page of the polled event shows nothing on sale, the
\* detector returns the empty sequence, and the iteration of the event loop
\* adds no Finding, observes no key and leaves the mapping as it was.
C11_StepOk ==
    (Polls /\ NothingOnSale(page')) =>
        /\ check_event_tickets(page') = <<>>
        /\ tickets' = <<>>
        /\ new_findings' = new_findings
        /\ state' = state
        /\ seen' = seen

\* C11: a sold-out page yields no listing, no Finding and no key.
C11_EmptyOnSoldOut == [][C11_StepOk]_vars

\* The scan ended with the sold-out page of event 201 (two muted blocks, a
\* login link): the Finding of event 101 is kept, and 201 has no key.
C11_Witness ==
    /\ pc = "notify"
    /\ page = SoldOutLogin
    /\ NothingOnSale(page)
    /\ "/events/artist/40/201" \in polled
    /\ failed = {}
    /\ tickets = <<>>
    /\ FindingKeys = {K101}
    /\ K201 \notin DOMAIN state.notified

\* C12: a listing is the same listing when path, date and venue are the
\* same.  A poll that observes a (path, date, venue) whose key was loaded,
\* whatever its ticket labels and detecting method, adds no Finding of that
\* key and leaves its entry as loaded; a cycle that completes made no
\* delivery call for a loaded key, and one that observed only loaded keys
\* made no Finding, no delivery call and handed the loaded mapping to the
\* pruning pass.
C12_StepOk ==
    Polls =>
        \A i \in DOMAIN tickets' :
            LET k == Key(events[ei].path, tickets'[i].date, tickets'[i].venue)
            IN  k \in DOMAIN loaded =>
                   /\ \A j \in DOMAIN new_findings' : FindingKey(new_findings'[j]) # k
                   /\ k \in DOMAIN state'.notified
                   /\ state'.notified[k] = loaded[k]

C12_AtEnd ==
    cycle = "completed" =>
        /\ \A i \in DOMAIN sent : sent[i][1] \notin DOMAIN loaded
        /\ seen \subseteq DOMAIN loaded =>
              /\ new_findings = <<>>
              /\ sent = <<>>
              /\ pruned.before = loaded

\* C12: the step property and the end-of-cycle property together.
C12_KeyIdentity == [][C12_StepOk]_vars /\ []C12_AtEnd

\* An earlier cycle of the process notified event 101 from a selection
\* control with the labels <<"1">>; this cycle finds the same date and venue
\* by the active-block strategy, without labels: no Finding, mapping as loaded.
C12_Witness ==
    /\ cycle = "running"
    /\ pc = "events"
    /\ ei = 2
    /\ K101 \in DOMAIN loaded
    /\ K101 \in DOMAIN told
    /\ told[K101] = [method |-> "select", tickets |-> <<"1">>]
    /\ page = ActiveOnly
    /\ Len(tickets) = 1
    /\ tickets[1].method = "active"
    /\ tickets[1].tickets = <<>>
    /\ KeyOf(events[1], tickets[1]) = K101
    /\ new_findings = <<>>
    /\ state.notified = loaded

-----------------------------------------------------------------------------
(* Properties of the detector, continued *)

\* C13 (as claimed): when strategies 1 and 2 find nothing (no selection
\* control inside a block, every block muted), the detector returns exactly
\* one entry, of method button with unknown date and venue, if at least one
\* clickable element has the purchase text, however many have it, and the
\* empty sequence if none has it.
C13_SingleButtonEntry ==
    (/\ pc = "detected"
     /\ ControlsInBlocks(page) = 0
     /\ \A i \in DOMAIN page.blocks : page.blocks[i].muted) =>
        IF \E i \in DOMAIN page.buttons : GetText(page.buttons[i]) = PURCHASE
        THEN tickets = <<[date |-> UNKNOWN, venue |-> UNKNOWN,
                          tickets |-> <<>>, method |-> "button"]>>
        ELSE tickets = <<>>

-----------------------------------------------------------------------------
(* Properties of the run modes *)

\* C14: in single-shot mode the process starts at most one cycle and no
\* wait; when that cycle returns the process has ended with status success,
\* with Findings and without; it ends with status success only after
\* exactly one completed cycle, and it starts no cycle after the first has
\* ended.
C14_StateOk ==
    once =>
        /\ cycles <= 1
        /\ pc # "sleep"
        /\ cycle = "completed" => (pc = "exited" /\ exit = "ok")
        /\ exit = "ok" => (cycles = 1 /\ cycle = "completed" /\ pc = "exited")
        /\ cycle \in {"completed", "aborted", "interrupted"} => pc = "exited"

C14_StepOk == (once /\ pc = "exited") => UNCHANGED vars

\* C14: one cycle, then the end, with status success when the cycle returned.
C14_SingleShot == []C14_StateOk /\ [][C14_StepOk]_vars

\* A single-shot run whose cycle polled events and found nothing new.
C14_Witness ==
    /\ once
    /\ pc = "exited"
    /\ exit = "ok"
    /\ cycles = 1
    /\ polled # {}
    /\ new_findings = <<>>
    /\ sent = <<>>
    /\ file.kind = "dict"

-----------------------------------------------------------------------------
(* Properties of the scan *)

\* The artists of ARTISTS, as a set.
Configured == {ARTISTS[i] : i \in DOMAIN ARTISTS}

\* C15: for an artist name without an entry in ARTIST_IDS the extractor
\* returns the empty sequence and no page is rendered (no time passes, the
\* page at hand stays); the step changes neither the mapping nor the
\* Findings nor what was listed or polled, and goes on with the next artist,
\* or with the delivery loop after the last one.  A cycle that completes
\* has called the extractor for every configured artist, and has no Finding
\* and no event of an unresolvable artist.
C15_StepOk ==
    (pc = "artists" /\ ~Resolvable(ARTISTS[ai]) /\ exit' # "interrupted"
        /\ vars' # vars) =>
        /\ get_event_urls(<<>>, ARTISTS[ai]) = <<>>
        /\ events' = <<>>
        /\ clock' = clock
        /\ page' = page
        /\ state' = state
        /\ new_findings' = new_findings
        /\ listed' = listed
        /\ polled' = polled
        /\ asked' = asked \cup {ARTISTS[ai]}
        /\ cycle' = "running"
        /\ ai' = ai + 1
        /\ pc' = IF ai < Len(ARTISTS) THEN "artists" ELSE "notify"

C15_AtEnd ==
    (cycle = "completed" /\ exit # "interrupted") =>
        /\ asked = Configured
        /\ \A i \in DOMAIN new_findings : Resolvable(new_findings[i].artist)

\* C15: the step property and the end-of-cycle property together.
C15_UnknownArtistSkipped == [][C15_StepOk]_vars /\ []C15_AtEnd

\* A completed cycle with the unresolvable artist in the middle: the artist
\* before it and the artist after it both gave a Finding.
C15_Witness ==
    /\ cycle = "completed"
    /\ \E i \in DOMAIN ARTISTS : ~Resolvable(ARTISTS[i]) /\ ARTISTS[i] \in asked
    /\ \E i \in DOMAIN new_findings : new_findings[i].artist = ARTISTS[1]
    /\ \E i \in DOMAIN new_findings : new_findings[i].artist = ARTISTS[3]
    /\ {K101, K201} \subseteq FileKeys(file)

\* The scan is over: the extractor was called for every artist, and the
\* detector for every event that was listed.
ScanOver == ai > Len(ARTISTS) /\ asked = Configured /\ polled = listed

\* The step is part of the scan: the extractor or the detector is called.
Scans == (\E a \in asked' : a \notin asked) \/ (\E ev \in polled' : ev \notin polled)

\* C16: the steps of a cycle come in the order scan, deliver, prune, save.
\* A delivery call is made with the scan over and before the pruning pass,
\* and changes neither Findings nor mapping nor file; the pruning pass runs
\* with the scan over and one delivery call made per Finding; the file is
\* written with the pruning pass done; and no delivery call, pruning pass or
\* write has happened in the cycle as long as it scans.
C16_StepOk ==
    /\ Len(sent') > Len(sent) =>
          /\ ScanOver
          /\ pruned = NoPruned /\ pruned' = NoPruned
          /\ new_findings' = new_findings
          /\ state' = state
          /\ file' = file
    /\ (pruned' # pruned /\ pruned' # NoPruned) =>
          /\ ScanOver
          /\ pruned = NoPruned
          /\ Len(sent) = Len(new_findings)
          /\ sent' = sent
          /\ file' = file
    /\ file' # file =>
          /\ ScanOver
          /\ Len(sent) = Len(new_findings)
          /\ sent' = sent
          /\ pruned # NoPruned
          /\ pruned' = pruned
    /\ Scans =>
          /\ sent = <<>> /\ sent' = <<>>
          /\ pruned = NoPruned /\ pruned' = NoPruned
          /\ file' = file

C16_StateOk ==
    pc \in {"artists", "events"} =>
        /\ sent = <<>>
        /\ pruned = NoPruned
        /\ file = committed

\* C16: the step property and the state property together.
C16_StepOrder == [][C16_StepOk]_vars /\ []C16_StateOk

\* A completed cycle with two delivery calls, a pruning pass that dropped an
\* entry, and the write of the file.
C16_Witness ==
    /\ cycle = "completed"
    /\ exit # "interrupted"
    /\ Len(sent) = 2
    /\ pruned # NoPruned
    /\ DOMAIN pruned.before # DOMAIN state.notified
    /\ file = FileOf(state)

-----------------------------------------------------------------------------
(* Properties of the notified mapping over the cycles *)

\* The entry is not inside the retention window that ends at the local
\* time now: it is 30 days old or older.
Expired(iso, now) == EntryEpoch(iso) <= Timestamp(now) - RETENTION

\* C17, on the file: from one state of a readable file to the next, a new
\* entry is the key of a Finding of the cycle that writes, built from a
\* listing the cycle observed and absent from the mapping it loaded, with a
\* timestamp taken during the cycle; an entry that stays keeps its
\* timestamp; an entry that goes was found expired by the pruning pass of
\* the cycle that writes.
C17_FileStepOk ==
    (file' # file /\ file.kind # "corrupt" /\ file'.kind = "dict") =>
        /\ cycle' = "completed"
        /\ FileKeys(file) = DOMAIN loaded
        /\ \A k \in FileKeys(file') \ FileKeys(file) :
              /\ k \in seen
              /\ k \in FindingKeys
              /\ EntryEpoch(file'.notified[k]) \in started..clock
        /\ \A k \in FileKeys(file') \cap FileKeys(file) :
              file'.notified[k] = file.notified[k]
        /\ \A k \in FileKeys(file) \ FileKeys(file') :
              /\ k \in DOMAIN pruned.before
              /\ pruned.before[k] = file.notified[k]
              /\ Expired(pruned.before[k], pruned.now)

\* C17, on the mapping in memory during a cycle: an entry is added only by
\* a poll that observed its key; an entry that stays keeps its timestamp;
\* an entry goes only in the pruning pass, expired.
C17_MemStepOk ==
    (cycle = "running" /\ cycle' = "running") =>
        /\ \A k \in DOMAIN state'.notified \ DOMAIN state.notified :
              /\ Polls
              /\ \E i \in DOMAIN tickets' :
                    k = Key(events[ei].path, tickets'[i].date, tickets'[i].venue)
              /\ state'.notified[k] = IsoFormat(Now(clock'))
        /\ \A k \in DOMAIN state'.notified \cap DOMAIN state.notified :
              state'.notified[k] = state.notified[k]
        /\ \A k \in DOMAIN state.notified \ DOMAIN state'.notified :
              /\ pruned' # pruned
              /\ Expired(state.notified[k], pruned'.now)

\* C17: entries are inserted on detection, never changed, removed by pruning.
C17_EntryLifecycle == [][C17_FileStepOk /\ C17_MemStepOk]_vars

\* The second cycle of a process that started with the file of an earlier
\* run: event 101, pruned by the first cycle, is detected again and
\* inserted with a new timestamp; event 102 has expired and goes; event
\* 201, inserted by the first cycle, stays as it was.
C17_Witness ==
    /\ cycle = "completed"
    /\ exit # "interrupted"
    /\ cycles = 2
    /\ K101 \in FileKeys(file) \ DOMAIN loaded
    /\ EntryEpoch(file.notified[K101]) > RETENTION
    /\ K102 \in DOMAIN loaded \ FileKeys(file)
    /\ K201 \in DOMAIN loaded \cap FileKeys(file)
    /\ file.notified[K201] = loaded[K201]

\* C18: every file the process writes, and so the file a completed cycle
\* leaves, holds only entries with a timestamp strictly later than the time
\* of that cycle's pruning pass minus 30 days; the pruning pass and the
\* write happen at the same second of the model's clock.
C18_StepOk ==
    (file' # file /\ file'.kind = "dict") =>
        /\ pruned.now = Now(clock)
        /\ \A k \in FileKeys(file') :
              EntryEpoch(file'.notified[k]) > Timestamp(pruned.now) - 30 * 86400

C18_StateOk ==
    (cycle = "completed" /\ exit # "interrupted") =>
        /\ file.kind = "dict"
        /\ \A k \in FileKeys(file) :
              EntryEpoch(file.notified[k]) > Timestamp(pruned.now) - 30 * 86400

\* C18: no entry older than the retention window survives a completed cycle.
C18_RetentionBound == [][C18_StepOk]_vars /\ []C18_StateOk

\* A completed cycle that loaded an expired entry and an entry one second
\* short of expiry: the file holds the second and not the first.
C18_Witness ==
    /\ cycle = "completed"
    /\ exit # "interrupted"
    /\ \E k \in DOMAIN loaded \ FileKeys(file) :
          EntryEpoch(loaded[k]) <= clock - 30 * 86400
    /\ \E k \in DOMAIN loaded \cap FileKeys(file) :
          EntryEpoch(file.notified[k]) = clock - 30 * 86400 + 1

\* The pruning pass of the cycle is done and its locals are still there.
Pruned == pruned # NoPruned

\* C19: the pruning pass comes after the dedup.  Until the pruning pass a
\* loaded entry that had expired when the cycle started is still in the
\* mapping, so its key makes no Finding; after the pruning pass it is gone
\* from the mapping, and from the file once the cycle has completed.  No
\* key that the pruning pass of a cycle dropped has a Finding or a delivery
\* call in that cycle, and every key that a cycle inserted is still in the
\* mapping after its pruning pass, and in the file it writes.
C19_StateOk ==
    /\ (cycle = "running" /\ ~Pruned /\ pc \in {"artists", "events", "notify"}) =>
          \A k \in DOMAIN loaded :
              Expired(loaded[k], Now(started)) =>
                 /\ k \in DOMAIN state.notified
                 /\ k \notin FindingKeys
    /\ Pruned =>
          /\ \A k \in DOMAIN loaded :
                Expired(loaded[k], Now(started)) =>
                   /\ k \notin DOMAIN state.notified
                   /\ k \notin FindingKeys
          /\ \A k \in DOMAIN pruned.before \ DOMAIN state.notified :
                /\ k \in DOMAIN loaded
                /\ k \notin FindingKeys
                /\ \A i \in DOMAIN sent : sent[i][1] # k
          /\ \A k \in FindingKeys : k \in DOMAIN state.notified
    /\ (Pruned /\ cycle = "completed") =>
          /\ \A k \in DOMAIN loaded :
                Expired(loaded[k], Now(started)) => k \notin FileKeys(file)
          /\ FindingKeys \subseteq FileKeys(file)

\* C19: an expired key suppresses until the end of the cycle that prunes it.
C19_PruneAfterDedup == []C19_StateOk

\* The entry of event 102 had expired when the second cycle started; the
\* cycle saw event 102 on sale, made no Finding of it and dropped the entry,
\* and kept the entry of event 101 that it had inserted itself.
C19_Witness ==
    /\ cycle = "completed"
    /\ Pruned
    /\ cycles = 2
    /\ K102 \in DOMAIN loaded
    /\ Expired(loaded[K102], Now(started))
    /\ K102 \in seen
    /\ K102 \notin FindingKeys
    /\ K102 \notin FileKeys(file)
    /\ K101 \in FindingKeys
    /\ K101 \in FileKeys(file)

\* C20: a key is in the file only after send_line was called for its
\* Finding.  Every key that a write adds to the file is the key of a Finding
\* of the cycle for which a delivery call was made before the write; as long
\* as a cycle runs, and after it was aborted, no key of its Findings is in
\* the file; the keys of the undelivered Findings of an aborted cycle stay
\* out of the file until a cycle completes, and the completed cycle that
\* observes one of them makes a Finding of it and a delivery call for it.
C20_StepOk ==
    (file' # file /\ file'.kind = "dict") =>
        \A k \in FileKeys(file') \ FileKeys(file) :
            \E i \in DOMAIN sent :
                sent[i][1] = k /\ FindingKey(new_findings[i]) = k

C20_StateOk ==
    /\ cycle \in {"running", "aborted"} =>
          \A k \in FindingKeys : k \notin FileKeys(file)
    /\ cycle # "completed" => dropped \cap FileKeys(file) = {}
    /\ (cycle = "completed" /\ exit # "interrupted") =>
          \A k \in dropped \cap seen :
              /\ k \in FindingKeys
              /\ \E i \in DOMAIN sent : sent[i][1] = k

\* C20: no key is persisted without a delivery call for its Finding.
C20_NoSilentSuppression == [][C20_StepOk]_vars /\ []C20_StateOk

\* The first cycle made a Finding of event 101 and was aborted before any
\* delivery call; the second cycle observed the listing again, made the
\* Finding and the delivery call, and wrote the key.
C20_Witness ==
    /\ cycle = "completed"
    /\ exit # "interrupted"
    /\ cycles = 2
    /\ prev = "aborted"
    /\ K101 \in dropped
    /\ K101 \in seen
    /\ K101 \in FindingKeys
    /\ \E i \in DOMAIN sent : sent[i][1] = K101
    /\ K101 \in FileKeys(file)

====
